---- MODULE Spec2Model ----
(***************************************************************************)
(* PubMed paper fetcher: fetch_pubmed_ids, fetch_paper_details,            *)
(* parse_paper_details, filter_non_academic_authors (pubmed_utils.py) and  *)
(* the command line entry point main (main.py).                            *)
(*                                                                         *)
(* Python strings are modelled as sequences of one-character strings, so   *)
(* that substring tests, the regular expression search, concatenation and  *)
(* "; ".join are computed character by character.  An XML element is a     *)
(* record [tag, text, kids]; an element without text has text = <<>>, as   *)
(* ElementTree.findtext returns "" for it.                                 *)
(***************************************************************************)
EXTENDS Integers, Sequences, FiniteSets, TLC

VARIABLES
    entry,          \* the function under call: main, fetch_pubmed_ids, ...
    query,          \* args.query / the query argument
    file,           \* args.file (<<>> when the option is absent)
    debug,          \* args.debug / the debug argument
    jsonErrIsReqExc,\* installed requests: JSONDecodeError is a RequestException
    pc,             \* position of the control flow
    attempt,        \* loop variable of the current "for attempt in range(3)"
    searchCalls,    \* number of requests.get(PUBMED_BASE_URL) performed
    fetchCalls,     \* number of requests.get(PUBMED_FETCH_URL) performed
    lastSearch,     \* outcome of the most recent search call
    lastFetch,      \* outcome of the most recent fetch call
    pubmed_ids,     \* the id list handed to fetch_paper_details
    papers,         \* main: the rows returned by fetch_paper_details
    xml_data,       \* the document handed to parse_paper_details
    returned,       \* value returned by the function under call
    raised,         \* exception leaving the function under call
    console,        \* messages printed, in order
    printed,        \* rows printed by main, in order
    outfile         \* the file at args.file

vars ==
    << entry, query, file, debug, jsonErrIsReqExc, pc, attempt, searchCalls,
       fetchCalls, lastSearch, lastFetch, pubmed_ids, papers, xml_data,
       returned, raised, console, printed, outfile >>

----------------------------------------------------------------------------
(* Bounds of the model *)

MaxAuthors == 2
MaxRecords == 2
ExtraMatches == 1

----------------------------------------------------------------------------
(* String literals of the program *)

Unknown == <<"U", "n", "k", "n", "o", "w", "n">>
NoneStr == <<"N", "o", "n", "e">>
CommaSpace == <<",", " ">>
SemiSpace == <<";", " ">>
Slash == <<"/">>

company_keywords ==
    << <<"I", "n", "c">>,
       <<"L", "t", "d">>,
       <<"C", "o", "r", "p">>,
       <<"C", "o", "r", "p", "o", "r", "a", "t", "i", "o", "n">>,
       <<"P", "h", "a", "r", "m", "a">>,
       <<"B", "i", "o", "t", "e", "c", "h">>,
       <<"B", "i", "o", "p", "h", "a", "r", "m", "a">>,
       <<"H", "e", "a", "l", "t", "h", "T", "e", "c", "h">>,
       <<"L", "a", "b">>,
       <<"R", "e", "s", "e", "a", "r", "c", "h", " ", "I", "n", "s", "t", "i", "t", "u", "t", "e">>,
       <<"C", "o", "m", "p", "a", "n", "y">>,
       <<"T", "h", "e", "r", "a", "p", "e", "u", "t", "i", "c", "s">>,
       <<"H", "e", "a", "l", "t", "h", "c", "a", "r", "e">> >>

\* \w of the re module, over the characters the model uses
WordChars ==
    {"a", "b", "c", "d", "e", "f", "g", "h", "i", "j", "k", "l", "m", "n", "o",
     "p", "q", "r", "s", "t", "u", "v", "w", "x", "y", "z", "A", "B", "C", "D",
     "E", "F", "G", "H", "I", "J", "K", "L", "M", "N", "O", "P", "Q", "R", "S",
     "T", "U", "V", "W", "X", "Y", "Z", "0", "1", "2", "3", "4", "5", "6", "7",
     "8", "9", "_"}

\* the character class [\w.-]
EmailClass == WordChars \cup {".", "-"}

Whitespace == {" "}

----------------------------------------------------------------------------
(* str operations *)

\* keyword in affiliation
Contains(s, k) ==
    \E i \in 1..(Len(s) - Len(k) + 1) : SubSeq(s, i, i + Len(k) - 1) = k

\* str.strip()
Strip(s) ==
    LET keep == {i \in 1..Len(s) : s[i] \notin Whitespace}
    IN  IF keep = {} THEN <<>>
        ELSE LET lo == CHOOSE i \in keep : \A j \in keep : i <= j
                 hi == CHOOSE i \in keep : \A j \in keep : j <= i
             IN  SubSeq(s, lo, hi)

RECURSIVE Join(_, _)
\* sep.join(parts)
Join(sep, parts) ==
    IF parts = <<>> THEN <<>>
    ELSE IF Len(parts) = 1 THEN parts[1]
    ELSE parts[1] \o sep \o Join(sep, Tail(parts))

\* end of the longest run of [\w.-] characters that starts at position i
RunEnd(s, i) ==
    LET stops == {j \in i..Len(s) : s[j] \notin EmailClass}
    IN  IF stops = {} THEN Len(s)
        ELSE (CHOOSE j \in stops : \A k \in stops : j <= k) - 1

\* the pattern [\w.-]+@[\w.-]+ matches at position i
MatchesAt(s, i) ==
    /\ s[i] \in EmailClass
    /\ RunEnd(s, i) + 2 <= Len(s)
    /\ s[RunEnd(s, i) + 1] = "@"
    /\ s[RunEnd(s, i) + 2] \in EmailClass

\* re.search(r"[\w.-]+@[\w.-]+", s): the leftmost match, each run greedy;
\* <<>> stands for no match
EmailSearch(s) ==
    LET starts == {i \in 1..Len(s) : MatchesAt(s, i)}
    IN  IF starts = {} THEN <<>>
        ELSE LET i == CHOOSE a \in starts : \A b \in starts : a <= b
             IN  SubSeq(s, i, RunEnd(s, RunEnd(s, i) + 2))

----------------------------------------------------------------------------
(* xml.etree.ElementTree *)

E(tag, text, kids) == [tag |-> tag, text |-> text, kids |-> kids]

RECURSIVE Iter(_)
RECURSIVE IterAll(_)
\* Element.iter(): the element and its descendants in document order
Iter(e) == <<e>> \o IterAll(e.kids)
IterAll(es) == IF es = <<>> THEN <<>> ELSE Iter(Head(es)) \o IterAll(Tail(es))

WithTag(es, tag) == SelectSeq(es, LAMBDA x : x.tag = tag)

\* findall(".//tag"): the descendants, not the element itself
FindAllDesc(e, tag) == WithTag(IterAll(e.kids), tag)

\* findall("tag"): the direct children
FindAllChild(e, tag) == WithTag(e.kids, tag)

RECURSIVE ChildrenOfEach(_, _)
ChildrenOfEach(es, tag) ==
    IF es = <<>> THEN <<>>
    ELSE FindAllChild(Head(es), tag) \o ChildrenOfEach(Tail(es), tag)

\* findall(".//parent/tag")
FindAllDescChild(e, parent, tag) == ChildrenOfEach(FindAllDesc(e, parent), tag)

\* findtext: text of the first match, "" for a match without text,
\* the default when nothing matches
FindText(matches, default) ==
    IF matches = <<>> THEN default ELSE Head(matches).text

\* x or default
OrElse(x, default) == IF x = <<>> THEN default ELSE x

----------------------------------------------------------------------------
(* parse_paper_details and filter_non_academic_authors *)

NoException == [type |-> "none", cause |-> "none"]
Exc(type, cause) == [type |-> type, cause |-> cause]

\* mutation: the keyword is looked for at the start of the affiliation only
IsNonAcademicPrefix(affiliation) ==
    \E k \in 1..Len(company_keywords) :
        /\ Len(company_keywords[k]) <= Len(affiliation)
        /\ SubSeq(affiliation, 1, Len(company_keywords[k])) = company_keywords[k]

\* any(keyword in affiliation for keyword in company_keywords)
IsNonAcademic(affiliation) ==
    \E k \in 1..Len(company_keywords) : Contains(affiliation, company_keywords[k])

RECURSIVE FilterZip(_, _, _)
\* the loop over zip(authors, affiliations), from pair i on
FilterZip(authors, affiliations, i) ==
    IF i > Len(authors) \/ i > Len(affiliations) THEN <<>>
    ELSE IF IsNonAcademic(affiliations[i])
         THEN <<[name |-> authors[i], company |-> affiliations[i]]>>
              \o FilterZip(authors, affiliations, i + 1)
         ELSE FilterZip(authors, affiliations, i + 1)

filter_non_academic_authors(authors, affiliations) ==
    FilterZip(authors, affiliations, 1)

\* mutation: the year is used alone only when month and day are both missing
PublicationDateYearAlone(year, month, day) ==
    IF day # <<>> /\ month # <<>> /\ year # <<>>
    THEN year \o Slash \o month \o Slash \o day
    ELSE IF year # <<>> /\ month = <<>> /\ day = <<>> THEN year
    ELSE <<>>

\* the "Publication Date" of a paper from the three findtext results
PublicationDate(year, month, day) ==
    IF day # <<>> /\ month # <<>> /\ year # <<>>
    THEN year \o Slash \o month \o Slash \o day
    ELSE IF year # <<>> THEN year
    ELSE <<>>

\* author.findtext("LastName", "") + ", " + author.findtext("ForeName", "")
AuthorName(author) ==
    FindText(FindAllChild(author, "LastName"), <<>>) \o CommaSpace
        \o FindText(FindAllChild(author, "ForeName"), <<>>)

\* author.findtext(".//Affiliation", "")
AuthorAffiliation(author) == FindText(FindAllDesc(author, "Affiliation"), <<>>)

\* mutation: the first email found is kept
EmailStepFirst(current, affiliation) ==
    IF EmailSearch(affiliation) # <<>> /\ current = NoneStr
    THEN EmailSearch(affiliation) ELSE current

\* the email part of one pass of the author loop: the value of
\* paper["Corresponding Author Email"] after the pass
EmailStep(current, affiliation) ==
    IF EmailSearch(affiliation) # <<>> THEN EmailSearch(affiliation) ELSE current

RECURSIVE AuthorLoop(_, _, _)
\* for author in article.findall(".//Author"), from author i on;
\* acc holds the email of the paper and the two lists built so far
AuthorLoop(authorElems, i, acc) ==
    IF i > Len(authorElems) THEN acc
    ELSE LET name == AuthorName(authorElems[i])
             affiliation == AuthorAffiliation(authorElems[i])
         IN  AuthorLoop(authorElems, i + 1,
                 [email |-> EmailStep(acc.email, affiliation),
                  authors |-> Append(acc.authors, name),
                  affiliations |-> Append(acc.affiliations, affiliation)])

\* one pass of "for article in root.findall(...)": the paper appended
BuildPaper(article) ==
    LET day == FindText(FindAllDescChild(article, "PubDate", "Day"), <<>>)
        month == FindText(FindAllDescChild(article, "PubDate", "Month"), <<>>)
        year == FindText(FindAllDescChild(article, "PubDate", "Year"), <<>>)
        acc == AuthorLoop(FindAllDesc(article, "Author"), 1,
                   [email |-> NoneStr, authors |-> <<>>, affiliations |-> <<>>])
        non_academic_authors ==
            filter_non_academic_authors(acc.authors, acc.affiliations)
    IN  [PubmedID |-> OrElse(FindText(FindAllDesc(article, "PMID"), <<>>), Unknown),
         Title |-> OrElse(FindText(FindAllDesc(article, "ArticleTitle"), <<>>), Unknown),
         PublicationDate |-> PublicationDate(year, month, day),
         NonAcademicAuthors |->
             IF non_academic_authors # <<>>
             THEN Join(SemiSpace, [j \in 1..Len(non_academic_authors) |->
                                       non_academic_authors[j].name])
             ELSE NoneStr,
         CompanyAffiliations |->
             IF non_academic_authors # <<>>
             THEN Join(SemiSpace, [j \in 1..Len(non_academic_authors) |->
                                       non_academic_authors[j].company])
             ELSE NoneStr,
         CorrespondingEmail |-> acc.email]

\* mutation: only the children of the root are searched
FindArticlesChildren(root) == FindAllChild(root, "PubmedArticle")

\* root.findall(".//PubmedArticle")
FindArticles(root) == FindAllDesc(root, "PubmedArticle")

\* parse_paper_details: [exc, papers]; ET.ParseError becomes ValueError
parse_paper_details(xml) ==
    IF ~xml.wf
    THEN [exc |-> Exc("ValueError", "ParseError"), papers |-> <<>>]
    ELSE LET articles == FindArticles(xml.root)
         IN  [exc |-> NoException,
              papers |-> [i \in 1..Len(articles) |-> BuildPaper(articles[i])]]

----------------------------------------------------------------------------
(* Input documents *)

\* marks a sub-element that the document does not have
Absent == <<"absent">>

OptElem(tag, v) == IF v = Absent THEN <<>> ELSE <<E(tag, v, <<>>)>>

AuthorElem(last, fore, aff) ==
    E("Author", <<>>,
      OptElem("LastName", last) \o OptElem("ForeName", fore)
        \o (IF aff = Absent THEN <<>>
            ELSE <<E("AffiliationInfo", <<>>, <<E("Affiliation", aff, <<>>)>>)>>))

ArticleElem(pmid, title, year, month, day, authors) ==
    E("PubmedArticle", <<>>,
      <<E("MedlineCitation", <<>>,
          OptElem("PMID", pmid)
          \o <<E("Article", <<>>,
                 <<E("Journal", <<>>,
                     <<E("JournalIssue", <<>>,
                         <<E("PubDate", <<>>,
                             OptElem("Year", year) \o OptElem("Month", month)
                                 \o OptElem("Day", day))>>)>>)>>
                 \o OptElem("ArticleTitle", title)
                 \o <<E("AuthorList", <<>>, authors)>>)>>)>>)

AuthorPool ==
    { AuthorElem(<<"L", "i">>, <<"A", "n", "n">>, <<"M", "I", "T">>),
      AuthorElem(<<"W", "u">>, <<"B", "o">>, <<"X", " ", "I", "n", "c">>),
      AuthorElem(<<"R", "o", "e">>, Absent, <<"x", " ", "i", "n", "c">>),
      AuthorElem(Absent, <<"A", "n", "n">>, <<"a", "@", "b", ".", "c">>),
      AuthorElem(<<"L", "i">>, <<"B", "o">>,
                 <<"L", "a", "b", "s", " ", "d", "@", "e", " ", "e", "@", "f">>),
      AuthorElem(<<"W", "u">>, <<"A", "n", "n">>, <<"@", "x", " ", "y", "@">>),
      AuthorElem(<<"R", "o", "e">>, <<"B", "o">>, Absent) }

AuthorLists == UNION {[1..n -> AuthorPool] : n \in 0..MaxAuthors}

Year2020 == <<"2", "0", "2", "0">>
MonthJan == <<"J", "a", "n">>
Day15 == <<"1", "5">>
Pmid11 == <<"1", "1">>
Pmid22 == <<"2", "2">>
TitleT1 == <<"T", "1">>

IncAuthor == AuthorElem(<<"W", "u">>, <<"B", "o">>, <<"X", " ", "I", "n", "c">>)
MailAuthor == AuthorElem(Absent, <<"A", "n", "n">>, <<"a", "@", "b", ".", "c">>)
PlainAuthor == AuthorElem(<<"L", "i">>, <<"A", "n", "n">>, <<"M", "I", "T">>)

\* one record for every combination of absent / empty / filled date parts
DateRecords ==
    { ArticleElem(Pmid11, TitleT1, y, m, d, <<IncAuthor, MailAuthor>>) :
        y \in {Absent, <<>>, Year2020}, m \in {Absent, <<>>, MonthJan},
        d \in {Absent, <<>>, Day15} }

\* one record for every author list
AuthorRecords ==
    { ArticleElem(Pmid22, TitleT1, Year2020, Absent, Absent, as) : as \in AuthorLists }

\* records of the documents that hold several records
RecordPool ==
    { ArticleElem(Pmid11, TitleT1, Year2020, MonthJan, Day15, <<IncAuthor, MailAuthor>>),
      ArticleElem(Pmid22, <<>>, Year2020, MonthJan, Absent, <<PlainAuthor>>),
      ArticleElem(Absent, Absent, Absent, Absent, Day15, <<>>) }

RecordLists == UNION {[1..n -> RecordPool] : n \in 0..MaxRecords}

\* the records directly under the root, as efetch sends them
Flat(rs) == E("PubmedArticleSet", <<>>, rs)

\* the first record one level deeper than the others
Mixed(rs) ==
    E("PubmedArticleSet", <<>>,
      IF rs = <<>> THEN <<E("Wrapper", <<>>, <<>>)>>
      ELSE <<E("Wrapper", <<>>, <<Head(rs)>>)>> \o Tail(rs))

\* the first record is the root of the document, the others are inside it
RootRecord(rs) == [Head(rs) EXCEPT !.kids = @ \o Tail(rs)]

WellFormed(root) == [wf |-> TRUE, root |-> root]
NotXml == [wf |-> FALSE, root |-> E("", <<>>, <<>>)]

ExtractDocs ==
    {WellFormed(Flat(<<r>>)) : r \in DateRecords \cup AuthorRecords}
    \cup {WellFormed(Flat(rs)) : rs \in RecordLists}
    \cup {WellFormed(Mixed(rs)) : rs \in RecordLists}
    \cup {WellFormed(RootRecord(rs)) : rs \in RecordLists \ {<<>>}}
    \cup {NotXml}

----------------------------------------------------------------------------
(* Outcomes of the two HTTP collaborators *)

RetMax == 100
RetryRange == 3

NoCall == [exc |-> "nocall", status |-> 0, body |-> "none", idlist |-> <<>>]
NoFetchCall == [exc |-> "nocall", status |-> 0, xml |-> NotXml]
NoFile == [state |-> "absent", rows |-> <<>>]
NoValue == [kind |-> "none", value |-> <<>>]
Value(v) == [kind |-> "value", value |-> v]

----------------------------------------------------------------------------
(* parse_paper_details called on its own *)

InitExtract ==
    /\ entry = "parse_paper_details"
    /\ xml_data \in ExtractDocs
    /\ debug \in BOOLEAN
    /\ pc = "parse"
    /\ query = <<>>
    /\ file = <<>>
    /\ jsonErrIsReqExc = TRUE
    /\ attempt = 0
    /\ searchCalls = 0
    /\ fetchCalls = 0
    /\ lastSearch = NoCall
    /\ lastFetch = NoFetchCall
    /\ pubmed_ids = <<>>
    /\ papers = <<>>
    /\ returned = NoValue
    /\ raised = NoException
    /\ console = <<>>
    /\ printed = <<>>
    /\ outfile = NoFile

ParseCall ==
    /\ pc = "parse"
    /\ \E r \in {parse_paper_details(xml_data)} :
           /\ raised' = r.exc
           /\ returned' = IF r.exc = NoException THEN Value(r.papers) ELSE NoValue
           /\ console' = IF r.exc = NoException /\ debug
                         THEN Append(console, "Parsed Papers") ELSE console
    /\ pc' = "done"
    /\ UNCHANGED << entry, query, file, debug, jsonErrIsReqExc, attempt,
                    searchCalls, fetchCalls, lastSearch, lastFetch, pubmed_ids,
                    papers, xml_data, printed, outfile >>

NextExtract == ParseCall

SpecExtract == InitExtract /\ [][NextExtract]_vars

----------------------------------------------------------------------------
(* Properties of parse_paper_details (SpecExtract) *)

Extracted == entry = "parse_paper_details" /\ pc = "done" /\ xml_data.wf

\* every PubmedArticle element of the document, the root included
AllRecordElements == WithTag(Iter(xml_data.root), "PubmedArticle")

\* the PubmedArticle elements below the root, in document order
RecordElements == WithTag(Tail(Iter(xml_data.root)), "PubmedArticle")

RowsOf(records) ==
    /\ raised = NoException
    /\ returned.kind = "value"
    /\ Len(returned.value) = Len(records)
    /\ \A i \in 1..Len(records) : returned.value[i] = BuildPaper(records[i])

\* C3 as stated: a well-formed document with N PubmedArticle elements, at
\* whatever position, yields exactly N rows, the i-th from the i-th element;
\* with no such element it yields the empty sequence and no error.
C3_AnyPosition == Extracted => RowsOf(AllRecordElements)

\* C3 amended: a well-formed document with N PubmedArticle elements below its
\* root element yields exactly N rows, the i-th row built from the i-th such
\* element in document order; with none it yields the empty sequence and no
\* error.  A PubmedArticle that is the root itself yields no row.
C3_BelowRoot == Extracted => RowsOf(RecordElements)

\* two different records at different depths were extracted in order
C3_Witness ==
    /\ Extracted
    /\ xml_data.root.kids # <<>>
    /\ xml_data.root.kids[1].tag = "Wrapper"
    /\ Len(RecordElements) = 2
    /\ RecordElements[1] # RecordElements[2]
    /\ returned.value[1].PubmedID = Pmid22
    /\ returned.value[2].PubmedID = Pmid11

YearOf(r) == FindText(FindAllDescChild(r, "PubDate", "Year"), <<>>)
MonthOf(r) == FindText(FindAllDescChild(r, "PubDate", "Month"), <<>>)
DayOf(r) == FindText(FindAllDescChild(r, "PubDate", "Day"), <<>>)

\* C4 as stated: the date is YEAR/MONTH/DAY when all three are present, the
\* year alone when only the year is present, and empty in every other case
\* (year and month without day included).
C4_YearOnlyWhenAlone ==
    Extracted =>
        \A i \in 1..Len(RecordElements) :
            LET y == YearOf(RecordElements[i])
                m == MonthOf(RecordElements[i])
                d == DayOf(RecordElements[i])
                date == returned.value[i].PublicationDate
            IN  /\ (y # <<>> /\ m # <<>> /\ d # <<>>) => date = y \o Slash \o m \o Slash \o d
                /\ (y # <<>> /\ m = <<>> /\ d = <<>>) => date = y
                /\ ~(y # <<>> /\ m # <<>> /\ d # <<>>) /\ ~(y # <<>> /\ m = <<>> /\ d = <<>>)
                       => date = <<>>

\* C4 amended: the date is YEAR/MONTH/DAY when all three are present; the
\* year alone whenever the year is present and the month or the day is not
\* (year and month without day included); empty exactly when the year is
\* absent, whatever the month and the day.
C4_YearWheneverPresent ==
    Extracted =>
        \A i \in 1..Len(RecordElements) :
            LET y == YearOf(RecordElements[i])
                m == MonthOf(RecordElements[i])
                d == DayOf(RecordElements[i])
                date == returned.value[i].PublicationDate
            IN  /\ (y # <<>> /\ m # <<>> /\ d # <<>>) => date = y \o Slash \o m \o Slash \o d
                /\ (y # <<>> /\ (m = <<>> \/ d = <<>>)) => date = y
                /\ (y = <<>>) <=> (date = <<>>)

\* a record with year and month but no day was extracted
C4_Witness ==
    /\ Extracted
    /\ \E i \in 1..Len(RecordElements) :
           /\ YearOf(RecordElements[i]) = Year2020
           /\ MonthOf(RecordElements[i]) = MonthJan
           /\ DayOf(RecordElements[i]) = <<>>
           /\ returned.value[i].PublicationDate = Year2020

\* the affiliations of the authors of a record, in document order
AffiliationsOf(r) ==
    LET as == FindAllDesc(r, "Author")
    IN  [j \in 1..Len(as) |-> AuthorAffiliation(as[j])]

NamesOf(r) ==
    LET as == FindAllDesc(r, "Author")
    IN  [j \in 1..Len(as) |-> AuthorName(as[j])]

\* s holds local-part@domain somewhere: a non-empty run of [\w.-]
\* characters, an "@", and at least one more such character
HasEmail(s) ==
    \E a \in 1..Len(s) : \E k \in (a + 1)..(Len(s) - 1) :
        /\ \A j \in a..(k - 1) : s[j] \in EmailClass
        /\ s[k] = "@"
        /\ s[k + 1] \in EmailClass

\* C5: the CorrespondingEmail of a row is the match of the last author, in
\* document order, whose affiliation holds local-part@domain; it is "None"
\* exactly when no affiliation of that record does (no authors included), so
\* nothing carries over from another record.
C5_LastEmailWins ==
    Extracted =>
        \A i \in 1..Len(RecordElements) :
            LET affs == AffiliationsOf(RecordElements[i])
                with == {j \in 1..Len(affs) : HasEmail(affs[j])}
                email == returned.value[i].CorrespondingEmail
            IN  /\ (with = {}) <=> (email = NoneStr)
                /\ with # {} =>
                       LET last == CHOOSE j \in with : \A k \in with : k <= j
                       IN  /\ email = EmailSearch(affs[last])
                           /\ Contains(affs[last], email)
                           /\ HasEmail(email)

\* two authors with different emails: the second one's is reported
C5_Witness ==
    /\ Extracted
    /\ \E i \in 1..Len(RecordElements) :
           LET affs == AffiliationsOf(RecordElements[i])
           IN  /\ Len(affs) = 2
               /\ HasEmail(affs[1])
               /\ HasEmail(affs[2])
               /\ EmailSearch(affs[1]) # EmailSearch(affs[2])
               /\ returned.value[i].CorrespondingEmail = EmailSearch(affs[2])

KeywordSet == {company_keywords[k] : k \in 1..Len(company_keywords)}

\* the affiliation holds one of the keywords, letter for letter
Flagged(aff) ==
    \E kw \in KeywordSet : \E p \in 1..Len(aff) :
        /\ p + Len(kw) - 1 <= Len(aff)
        /\ \A c \in 1..Len(kw) : aff[p + c - 1] = kw[c]

\* the positions of the flagged authors, in increasing order
FlaggedPositions(affs) ==
    SelectSeq([j \in 1..Len(affs) |-> j], LAMBDA j : Flagged(affs[j]))

\* C6: NonAcademicAuthors and CompanyAffiliations are the names and the
\* affiliations of the same authors: those whose affiliation holds a keyword
\* as a case-sensitive substring, in document order, joined with "; "; both
\* are "None" exactly when no author of the record is flagged.
C6_ParallelLists ==
    Extracted =>
        \A i \in 1..Len(RecordElements) :
            LET affs == AffiliationsOf(RecordElements[i])
                names == NamesOf(RecordElements[i])
                pos == FlaggedPositions(affs)
                row == returned.value[i]
            IN  /\ (pos = <<>>) <=> (row.NonAcademicAuthors = NoneStr)
                /\ (pos = <<>>) <=> (row.CompanyAffiliations = NoneStr)
                /\ pos # <<>> =>
                       /\ row.NonAcademicAuthors =
                              Join(SemiSpace, [n \in 1..Len(pos) |-> names[pos[n]]])
                       /\ row.CompanyAffiliations =
                              Join(SemiSpace, [n \in 1..Len(pos) |-> affs[pos[n]]])

\* a record whose first author is academic and whose second is not
C6_Witness ==
    /\ Extracted
    /\ \E i \in 1..Len(RecordElements) :
           LET affs == AffiliationsOf(RecordElements[i])
           IN  /\ Len(affs) = 2
               /\ ~Flagged(affs[1])
               /\ Flagged(affs[2])
               /\ returned.value[i].NonAcademicAuthors = NamesOf(RecordElements[i])[2]
               /\ returned.value[i].CompanyAffiliations = affs[2]

----------------------------------------------------------------------------
(* fetch_pubmed_ids, fetch_paper_details and main *)

Queries == {<<>>, <<" ", " ">>, <<"c">>, <<" ", "c", " ">>}
Files == {<<>>, <<"o">>}
IdLists == {<<>>, <<7>>, <<2, 1>>}

NetErrors == {"ConnectionError", "Timeout"}
Statuses == {200, 404, 500}

\* what the body of a 2xx search response can be: a JSON object with
\* esearchresult.idlist; one without "esearchresult"; one whose esearchresult
\* has no "idlist"; a JSON null or number (at the top or as esearchresult),
\* on which "in" raises TypeError; a body that is not JSON
SearchBodies == {"idlist", "noenvelope", "noidlist", "nonobject", "notjson"}

\* the ids that match the query on the server, in the server's order
ServerMatches ==
    { <<>>, <<2, 1>>, <<1, 1>>,
      [i \in 1..RetMax |-> i],
      [i \in 1..(RetMax + ExtraMatches) |-> i] }

\* params of the search request
SearchParams == [db |-> "pubmed", retmode |-> "json", retmax |-> RetMax]

\* the search endpoint sends at most retmax ids, the first ones
EsearchIdList(matches, retmax) ==
    IF Len(matches) <= retmax THEN matches ELSE SubSeq(matches, 1, retmax)

SearchOutcomes(params) ==
    {[exc |-> e, status |-> 0, body |-> "none", idlist |-> <<>>] : e \in NetErrors}
    \cup {[exc |-> "none", status |-> st, body |-> "none", idlist |-> <<>>] :
             st \in Statuses \ {200}}
    \cup {[exc |-> "none", status |-> 200, body |-> b, idlist |-> <<>>] :
             b \in SearchBodies \ {"idlist"}}
    \cup {[exc |-> "none", status |-> 200, body |-> "idlist",
           idlist |-> EsearchIdList(m, params.retmax)] : m \in ServerMatches}

FetchDocs ==
    { NotXml,
      WellFormed(Flat(<<>>)),
      WellFormed(Flat(<<ArticleElem(Pmid11, TitleT1, Year2020, MonthJan, Day15,
                                    <<IncAuthor, MailAuthor>>)>>)),
      WellFormed(Mixed(<<ArticleElem(Pmid22, <<>>, Year2020, MonthJan, Absent,
                                     <<PlainAuthor>>),
                         ArticleElem(Pmid11, TitleT1, Year2020, MonthJan, Day15,
                                     <<IncAuthor, MailAuthor>>)>>)) }

FetchOutcomes ==
    {[exc |-> e, status |-> 0, xml |-> NotXml] : e \in NetErrors}
    \cup {[exc |-> "none", status |-> st, xml |-> NotXml] : st \in Statuses \ {200}}
    \cup {[exc |-> "none", status |-> 200, xml |-> d] : d \in FetchDocs}

\* mutation: the query is not stripped
IsBlankNoStrip(q) == q = <<>>

\* not query.strip()
IsBlank(q) == Strip(q) = <<>>

\* mutation: an empty id list is sent to the endpoint like any other
NoIdsNever(ids) == FALSE

\* not pubmed_ids
NoIds(ids) == ids = <<>>

\* response.raise_for_status() raises HTTPError
RaisesForStatus(status) == 400 <= status /\ status < 600

\* attempt < 2
RetryAgain(a) == a < 2

\* mutation: the ids come back in reverse order
IdListReversed(idlist) == [i \in 1..Len(idlist) |-> idlist[Len(idlist) + 1 - i]]

\* return data["esearchresult"]["idlist"]
IdListResult(idlist) == idlist

\* the try body of fetch_pubmed_ids on one response:
\* [kind, exc, ids, echoed]; kind "request" is a RequestException, which the
\* except clause of the loop catches; kind "raise" is any other exception
SearchAttemptResult(o, jsonIsReqExc) ==
    IF o.exc # "none"
    THEN [kind |-> "request", exc |-> o.exc, ids |-> <<>>, echoed |-> FALSE]
    ELSE IF RaisesForStatus(o.status)
    THEN [kind |-> "request", exc |-> "HTTPError", ids |-> <<>>, echoed |-> FALSE]
    ELSE IF o.body = "notjson"
    THEN [kind |-> IF jsonIsReqExc THEN "request" ELSE "raise",
          exc |-> IF jsonIsReqExc THEN "JSONDecodeError" ELSE "ValueError",
          ids |-> <<>>, echoed |-> TRUE]
    ELSE IF o.body = "nonobject"
    THEN [kind |-> "raise", exc |-> "TypeError", ids |-> <<>>, echoed |-> TRUE]
    ELSE IF o.body \in {"noenvelope", "noidlist"}
    THEN [kind |-> "raise", exc |-> "ValueError", ids |-> <<>>, echoed |-> TRUE]
    ELSE [kind |-> "return", exc |-> "none", ids |-> IdListResult(o.idlist),
          echoed |-> TRUE]

\* the try body of fetch_paper_details on one response: [kind, exc, papers, echoed]
FetchAttemptResult(o) ==
    IF o.exc # "none"
    THEN [kind |-> "request", exc |-> o.exc, papers |-> <<>>, echoed |-> FALSE]
    ELSE IF RaisesForStatus(o.status)
    THEN [kind |-> "request", exc |-> "HTTPError", papers |-> <<>>, echoed |-> FALSE]
    ELSE LET r == parse_paper_details(o.xml)
         IN  IF r.exc # NoException
             THEN [kind |-> "raise", exc |-> r.exc.type, papers |-> <<>>, echoed |-> TRUE]
             ELSE [kind |-> "return", exc |-> "none", papers |-> r.papers,
                   echoed |-> TRUE]

\* mutation: main has no "except Exception" clause
MainHandlerNoCatchAll(type) ==
    IF type = "ValueError" THEN "Input Error"
    ELSE IF type = "RuntimeError" THEN "Runtime Error"
    ELSE "uncaught"

\* the except clauses of main: the message printed for an exception
MainHandler(type) ==
    IF type = "ValueError" THEN "Input Error"
    ELSE IF type = "RuntimeError" THEN "Runtime Error"
    ELSE "An unexpected error occurred"

\* the function under call ends: it returns ret or raises exc
Finish(con, ret, exc) ==
    /\ pc' = "done"
    /\ console' = con
    /\ returned' = ret
    /\ raised' = exc

\* an exception leaves fetch_pubmed_ids or fetch_paper_details: main prints
\* the message of the clause that catches it and returns
Throw(con, exc) ==
    IF entry = "main" /\ MainHandler(exc.type) # "uncaught"
    THEN Finish(Append(con, MainHandler(exc.type)), NoValue, NoException)
    ELSE Finish(con, NoValue, exc)

Echo(con, lines, on) == IF on /\ debug THEN con \o lines ELSE con

Init ==
    /\ entry \in {"main", "fetch_pubmed_ids", "fetch_paper_details"}
    /\ debug \in BOOLEAN
    /\ jsonErrIsReqExc \in BOOLEAN
    /\ query \in (IF entry = "fetch_paper_details" THEN {<<>>} ELSE Queries)
    /\ file \in (IF entry = "main" THEN Files ELSE {<<>>})
    /\ outfile \in (IF entry = "main" /\ file # <<>>
                    THEN {NoFile, [state |-> "old", rows |-> <<>>]} ELSE {NoFile})
    /\ pubmed_ids \in (IF entry = "fetch_paper_details" THEN IdLists ELSE {<<>>})
    /\ pc = (IF entry = "main" THEN "main"
             ELSE IF entry = "fetch_pubmed_ids" THEN "lookup_start"
             ELSE "fetch_start")
    /\ attempt = 0
    /\ searchCalls = 0
    /\ fetchCalls = 0
    /\ lastSearch = NoCall
    /\ lastFetch = NoFetchCall
    /\ papers = <<>>
    /\ xml_data = NotXml
    /\ returned = NoValue
    /\ raised = NoException
    /\ console = <<>>
    /\ printed = <<>>

\* main up to the try statement
MainStart ==
    /\ pc = "main"
    /\ IF IsBlank(query)
       THEN Finish(Append(console, "Error: Query cannot be empty or whitespace."),
                   NoValue, NoException)
       ELSE /\ pc' = "lookup_start"
            /\ UNCHANGED << console, returned, raised >>
    /\ UNCHANGED << entry, query, file, debug, jsonErrIsReqExc, attempt, searchCalls,
                    fetchCalls, lastSearch, lastFetch, pubmed_ids, papers, xml_data,
                    printed, outfile >>

\* fetch_pubmed_ids up to its loop
LookupStart ==
    /\ pc = "lookup_start"
    /\ IF IsBlank(query)
       THEN /\ Throw(console, Exc("ValueError", "Query cannot be empty or whitespace."))
            /\ attempt' = attempt
       ELSE /\ pc' = "lookup"
            /\ attempt' = 0
            /\ UNCHANGED << console, returned, raised >>
    /\ UNCHANGED << entry, query, file, debug, jsonErrIsReqExc, searchCalls,
                    fetchCalls, lastSearch, lastFetch, pubmed_ids, papers, xml_data,
                    printed, outfile >>

\* one pass of the loop of fetch_pubmed_ids
LookupAttempt ==
    /\ pc = "lookup"
    /\ \E o \in SearchOutcomes(SearchParams) :
        \E r \in {SearchAttemptResult(o, jsonErrIsReqExc)} :
        \E con \in {Echo(console, <<"Fetching PubMed IDs with query", "Response">>,
                         r.echoed)} :
            /\ searchCalls' = searchCalls + 1
            /\ lastSearch' = o
            /\ CASE r.kind = "return" ->
                        IF entry = "main"
                        THEN /\ pubmed_ids' = r.ids
                             /\ pc' = "fetch_start"
                             /\ console' = con
                             /\ UNCHANGED << attempt, returned, raised >>
                        ELSE /\ Finish(con, Value(r.ids), NoException)
                             /\ UNCHANGED << attempt, pubmed_ids >>
                 [] r.kind = "raise" ->
                        /\ Throw(con, Exc(r.exc, "Invalid response"))
                        /\ UNCHANGED << attempt, pubmed_ids >>
                 [] r.kind = "request" /\ RetryAgain(attempt) ->
                        IF attempt + 1 < RetryRange
                        THEN /\ attempt' = attempt + 1
                             /\ console' = Append(con, "Retrying due to error")
                             /\ UNCHANGED << pc, pubmed_ids, returned, raised >>
                        ELSE /\ pubmed_ids' = <<>>
                             /\ pc' = IF entry = "main" THEN "fetch_start" ELSE "done"
                             /\ console' = Append(con, "Retrying due to error")
                             /\ UNCHANGED << attempt, returned, raised >>
                 [] r.kind = "request" /\ ~RetryAgain(attempt) ->
                        /\ Throw(con, Exc("RuntimeError", r.exc))
                        /\ UNCHANGED << attempt, pubmed_ids >>
    /\ UNCHANGED << entry, query, file, debug, jsonErrIsReqExc, fetchCalls, lastFetch,
                    papers, xml_data, printed, outfile >>

\* fetch_paper_details up to its loop
FetchStart ==
    /\ pc = "fetch_start"
    /\ IF NoIds(pubmed_ids)
       THEN IF entry = "main"
            THEN /\ papers' = <<>>
                 /\ pc' = "output"
                 /\ UNCHANGED << attempt, console, returned, raised >>
            ELSE /\ Finish(console, Value(<<>>), NoException)
                 /\ UNCHANGED << attempt, papers >>
       ELSE /\ pc' = "fetch"
            /\ attempt' = 0
            /\ UNCHANGED << papers, console, returned, raised >>
    /\ UNCHANGED << entry, query, file, debug, jsonErrIsReqExc, searchCalls,
                    fetchCalls, lastSearch, lastFetch, pubmed_ids, xml_data,
                    printed, outfile >>

\* one pass of the loop of fetch_paper_details, parse_paper_details included
FetchAttempt ==
    /\ pc = "fetch"
    /\ \E o \in FetchOutcomes :
        \E r \in {FetchAttemptResult(o)} :
        \E con \in {Echo(Echo(console,
                              <<"Fetching details for PubMed IDs", "Response">>,
                              r.echoed),
                         <<"Parsed Papers">>, r.kind = "return")} :
            /\ fetchCalls' = fetchCalls + 1
            /\ lastFetch' = o
            /\ xml_data' = IF r.echoed THEN o.xml ELSE xml_data
            /\ CASE r.kind = "return" ->
                        IF entry = "main"
                        THEN /\ papers' = r.papers
                             /\ pc' = "output"
                             /\ console' = con
                             /\ UNCHANGED << attempt, returned, raised >>
                        ELSE /\ Finish(con, Value(r.papers), NoException)
                             /\ UNCHANGED << attempt, papers >>
                 [] r.kind = "raise" ->
                        /\ Throw(con, Exc(r.exc, "Failed to parse XML data"))
                        /\ UNCHANGED << attempt, papers >>
                 [] r.kind = "request" /\ RetryAgain(attempt) ->
                        IF attempt + 1 < RetryRange
                        THEN /\ attempt' = attempt + 1
                             /\ console' = Append(con, "Retrying due to error")
                             /\ UNCHANGED << pc, papers, returned, raised >>
                        ELSE /\ papers' = <<>>
                             /\ pc' = IF entry = "main" THEN "output" ELSE "done"
                             /\ console' = Append(con, "Retrying due to error")
                             /\ UNCHANGED << attempt, returned, raised >>
                 [] r.kind = "request" /\ ~RetryAgain(attempt) ->
                        /\ Throw(con, Exc("RuntimeError", r.exc))
                        /\ UNCHANGED << attempt, papers >>
    /\ UNCHANGED << entry, query, file, debug, jsonErrIsReqExc, searchCalls,
                    lastSearch, pubmed_ids, printed, outfile >>

\* main after fetch_paper_details: save_to_csv, or one print per paper;
\* open() either succeeds or raises OSError
Output ==
    /\ pc = "output"
    /\ IF file # <<>>
       THEN /\ \E opened \in BOOLEAN :
                   IF opened
                   THEN /\ outfile' = [state |-> "written", rows |-> papers]
                        /\ Finish(Append(console, "Results saved"), NoValue, NoException)
                   ELSE /\ outfile' = outfile
                        /\ Throw(console, Exc("OSError", "open"))
            /\ printed' = printed
       ELSE /\ printed' = papers
            /\ Finish(console, NoValue, NoException)
            /\ outfile' = outfile
    /\ UNCHANGED << entry, query, file, debug, jsonErrIsReqExc, attempt, searchCalls,
                    fetchCalls, lastSearch, lastFetch, pubmed_ids, papers, xml_data >>

Next ==
    \/ MainStart
    \/ LookupStart
    \/ LookupAttempt
    \/ FetchStart
    \/ FetchAttempt
    \/ Output

Spec == Init /\ [][Next]_vars

----------------------------------------------------------------------------
(* Properties of fetch_pubmed_ids, fetch_paper_details and main (Spec) *)

Is2xx(status) == 200 <= status /\ status <= 299

\* a network error, or a response whose status is not 2xx
TransportFailure(o) == o.exc \in NetErrors \/ (o.exc = "none" /\ ~Is2xx(o.status))

CauseOf(o) == IF o.exc \in NetErrors THEN o.exc ELSE "HTTPError"

SearchOk(o) == o.exc = "none" /\ Is2xx(o.status) /\ o.body = "idlist"
FetchOk(o) == o.exc = "none" /\ Is2xx(o.status) /\ o.xml.wf

\* a 2xx search response without an identifier list
MalformedSearch(o) == o.exc = "none" /\ Is2xx(o.status) /\ o.body # "idlist"

\* a 2xx fetch response whose body is not XML
MalformedFetch(o) == o.exc = "none" /\ Is2xx(o.status) /\ ~o.xml.wf

LastMessage == IF console = <<>> THEN "" ELSE console[Len(console)]

\* C1 as stated: at most 3 calls per invocation, a further call only after a
\* transport failure of the previous one, none after a successful one, and
\* RuntimeError carrying the cause of the third failure when the third call
\* fails too.
C1_RetryOnlyOnTransportFailure ==
    /\ searchCalls <= 3
    /\ fetchCalls <= 3
    /\ (pc = "lookup" /\ searchCalls > 0) => TransportFailure(lastSearch)
    /\ (pc = "fetch" /\ fetchCalls > 0) => TransportFailure(lastFetch)
    /\ (entry = "fetch_pubmed_ids" /\ pc = "done" /\ searchCalls = 3
            /\ TransportFailure(lastSearch))
           => raised = Exc("RuntimeError", CauseOf(lastSearch))
    /\ (entry = "fetch_paper_details" /\ pc = "done" /\ fetchCalls = 3
            /\ TransportFailure(lastFetch))
           => raised = Exc("RuntimeError", CauseOf(lastFetch))

\* C2 as stated: a 2xx search response without an identifier list, or a 2xx
\* fetch response that is not XML, ends the operation at once with
\* ValueError: no further call, no RuntimeError.
C2_MalformedFailsAtOnce ==
    /\ (fetchCalls = 0 /\ MalformedSearch(lastSearch)) =>
           /\ pc = "done"
           /\ entry = "fetch_pubmed_ids" => raised.type = "ValueError"
           /\ entry = "main" => LastMessage = "Input Error"
    /\ MalformedFetch(lastFetch) =>
           /\ pc = "done"
           /\ entry = "fetch_paper_details" => raised.type = "ValueError"
           /\ entry = "main" => LastMessage = "Input Error"

\* every character of the query is whitespace
Blank(q) == \A i \in 1..Len(q) : q[i] \in Whitespace

\* C7: with an empty or whitespace-only query, fetch_pubmed_ids raises
\* ValueError with no call of the search endpoint, and main prints the error
\* with no call of either endpoint, nothing printed and no file written.
C7_BlankQueryNoCall ==
    (entry \in {"main", "fetch_pubmed_ids"} /\ Blank(query)) =>
        /\ searchCalls = 0
        /\ fetchCalls = 0
        /\ printed = <<>>
        /\ outfile.state # "written"
        /\ pc \in {"main", "lookup_start", "done"}
        /\ pc = "done" =>
               IF entry = "main"
               THEN /\ raised = NoException
                    /\ console = <<"Error: Query cannot be empty or whitespace.">>
               ELSE /\ raised.type = "ValueError"
                    /\ returned = NoValue

\* fetch_pubmed_ids has rejected a query of two blanks
C7_Witness ==
    /\ entry = "fetch_pubmed_ids"
    /\ query = <<" ", " ">>
    /\ pc = "done"
    /\ raised.type = "ValueError"
    /\ searchCalls = 0

FetchSucceeded ==
    \/ entry = "fetch_paper_details" /\ pc = "done" /\ returned.kind = "value"
    \/ entry = "main" /\ pc = "output"

FetchedRows == IF entry = "main" THEN papers ELSE returned.value

\* C8 as stated: an empty id list gives the empty sequence with no call;
\* a run on a non-empty id list that returns rows has called the fetch
\* endpoint exactly once.
C8_ExactlyOneCall ==
    FetchSucceeded =>
        IF pubmed_ids = <<>>
        THEN fetchCalls = 0 /\ FetchedRows = <<>>
        ELSE fetchCalls = 1

\* C8 amended: an empty id list gives the empty sequence with no call; a run
\* on a non-empty id list that returns rows has called the fetch endpoint
\* between 1 and 3 times, exactly the last call succeeded and gave the rows,
\* and every call before it was a transport failure.
C8_OneSuccessfulCall ==
    /\ FetchSucceeded =>
           IF pubmed_ids = <<>>
           THEN fetchCalls = 0 /\ FetchedRows = <<>>
           ELSE /\ fetchCalls \in 1..3
                /\ FetchOk(lastFetch)
                /\ FetchedRows = parse_paper_details(lastFetch.xml).papers
    /\ pc = "fetch" =>
           /\ fetchCalls = attempt
           /\ attempt > 0 => TransportFailure(lastFetch)

\* rows were returned by the third call
C8_Witness ==
    /\ FetchSucceeded
    /\ pubmed_ids # <<>>
    /\ fetchCalls = 3
    /\ FetchedRows # <<>>

ErrorMessages ==
    {"Error: Query cannot be empty or whitespace.", "Input Error", "Runtime Error",
     "An unexpected error occurred"}

LookupFailed == pc = "done" /\ ~SearchOk(lastSearch)

FetchFailed ==
    pc = "done" /\ SearchOk(lastSearch) /\ pubmed_ids # <<>> /\ ~FetchOk(lastFetch)

ShownRows == IF file # <<>> THEN outfile.rows ELSE printed

\* C9: a run of main in which the lookup, the fetch or the extraction fails
\* prints an error message and returns; it prints no row, leaves the output
\* file alone and, after a failed lookup, never calls the fetch endpoint.
\* Rows are printed or written only after all three have succeeded, in order.
C9_NoPartialOutput ==
    entry = "main" =>
        /\ raised = NoException
        /\ (LookupFailed \/ FetchFailed) =>
               /\ LastMessage \in ErrorMessages
               /\ printed = <<>>
               /\ outfile.state # "written"
        /\ LookupFailed => fetchCalls = 0
        /\ fetchCalls > 0 => SearchOk(lastSearch)
        /\ pc # "done" => (printed = <<>> /\ outfile.state # "written")
        /\ (printed # <<>> \/ outfile.state = "written") =>
               /\ SearchOk(lastSearch)
               /\ pubmed_ids = lastSearch.idlist
               /\ pubmed_ids = <<>> \/ FetchOk(lastFetch)
               /\ ShownRows = IF pubmed_ids = <<>> THEN <<>>
                              ELSE parse_paper_details(lastFetch.xml).papers
               /\ \A i \in 1..Len(console) : console[i] \notin ErrorMessages

\* the fetch failed three times after a successful lookup: the old file is
\* still there and the error was printed
C9_Witness ==
    /\ entry = "main"
    /\ FetchFailed
    /\ fetchCalls = 3
    /\ outfile.state = "old"
    /\ LastMessage = "Runtime Error"

LookupSucceeded ==
    \/ entry = "fetch_pubmed_ids" /\ pc = "done" /\ returned.kind = "value"
    \/ entry = "main" /\ pc = "fetch_start"

LookupIds == IF entry = "main" THEN pubmed_ids ELSE returned.value

====
